---- MODULE Spec2Model ----
(***************************************************************************)
(* pyFLAC StreamDecoder (src/pyflac/decoder.py): the caller thread calls   *)
(* process() and finish(); a daemon worker thread runs libFLAC's           *)
(* process-until-end-of-stream loop, which calls back into _read_callback  *)
(* and _error_callback.  The two threads share the deque _buffer and the   *)
(* fields _done and _error.  Every Python statement of _read_callback and  *)
(* of finish() that touches shared state is one step, so that the caller's *)
(* steps interleave with the worker's.                                     *)
(*                                                                         *)
(* Bytes are numbered 1, 2, 3, ... in submission order, so that a lost, a  *)
(* duplicated or a reordered byte shows in the delivered sequence.         *)
(*                                                                         *)
(* A behaviour follows one object of one of the four public classes, from  *)
(* its construction on: StreamDecoder, FileDecoder (decoder.py),           *)
(* StreamEncoder, FileEncoder (encoder.py).  The variables of the other    *)
(* classes keep their initial values.                                      *)
(***************************************************************************)
EXTENDS Integers, Sequences, FiniteSets, TLC

\* ---------------------------------------------------------------- bounds
\* Number of process() calls the caller makes.
MaxChunks == 2
\* Length of one submitted chunk, 0..MaxChunkLen (b'' is a legal argument).
MaxChunkLen == 2
\* Largest request size (num_bytes[0] on entry) the engine issues, 0..MaxRequest.
MaxRequest == 2
\* Consecutive finish() calls the caller makes.
MaxFinish == 2
\* Frames or chunks the engine hands to a write callback of one object.
MaxFrames == 2

\* ------------------------------------------------------------- constants
\* self._error = None (decoder.py:84)
None == "None"
\* decoder._error = message, a libFLAC error status string (decoder.py:446-449)
CallbackMessage == "FLAC__STREAM_DECODER_ERROR_STATUS"
\* self._error = 'A fatal read, write, or memory allocation error occurred'
FatalMessage == "A fatal read, write, or memory allocation error occurred"

\* FLAC__StreamDecoderReadStatus (builder/decoder.py:75-79); NoStatus: no
\* read callback has returned yet.
NoStatus == "none"
CONTINUE == "READ_STATUS_CONTINUE"
END_OF_STREAM == "READ_STATUS_END_OF_STREAM"
ABORT == "READ_STATUS_ABORT"

\* `rc` before the init call has answered.
Unset == "unset"

\* FLAC__StreamDecoderInitStatus (builder/decoder.py:64-71).  init_stream is
\* called with every mandatory callback and on a fresh handle, so it answers
\* OK or fails on allocation; init_file may also fail to open the file.
INIT_STATUS_OK == "FLAC__STREAM_DECODER_INIT_STATUS_OK"
INIT_STATUS_MEMORY_ALLOCATION_ERROR == "FLAC__STREAM_DECODER_INIT_STATUS_MEMORY_ALLOCATION_ERROR"
INIT_STATUS_ERROR_OPENING_FILE == "FLAC__STREAM_DECODER_INIT_STATUS_ERROR_OPENING_FILE"
StreamInitStatuses == {INIT_STATUS_OK, INIT_STATUS_MEMORY_ALLOCATION_ERROR}
FileInitStatuses == StreamInitStatuses \cup {INIT_STATUS_ERROR_OPENING_FILE}

\* FLAC__StreamDecoderState (builder/decoder.py:49-60), the values this
\* program can observe.
SEARCH_FOR_METADATA == "FLAC__STREAM_DECODER_SEARCH_FOR_METADATA"
STATE_END_OF_STREAM == "FLAC__STREAM_DECODER_END_OF_STREAM"
STATE_ABORTED == "FLAC__STREAM_DECODER_ABORTED"
STATE_MEMORY_ALLOCATION_ERROR == "FLAC__STREAM_DECODER_MEMORY_ALLOCATION_ERROR"
STATE_UNINITIALIZED == "FLAC__STREAM_DECODER_UNINITIALIZED"

\* FLAC__StreamDecoderWriteStatus (builder/decoder.py:99-102).
WRITE_STATUS_CONTINUE == "FLAC__STREAM_DECODER_WRITE_STATUS_CONTINUE"
WRITE_STATUS_ABORT == "FLAC__STREAM_DECODER_WRITE_STATUS_ABORT"

\* frame.header.bits_per_sample of a decoded frame.
BitsPerSample == {16, 24}

\* The public classes of the package.
Classes == {"StreamDecoder", "FileDecoder", "StreamEncoder", "FileEncoder"}
EncoderClasses == {"StreamEncoder", "FileEncoder"}

\* FLAC__StreamEncoderInitStatus (builder/encoder.py:65-80), the values the
\* init call can answer for the configurations below.
ENC_INIT_STATUS_OK == "FLAC__STREAM_ENCODER_INIT_STATUS_OK"
ENC_INIT_STATUS_ENCODER_ERROR == "FLAC__STREAM_ENCODER_INIT_STATUS_ENCODER_ERROR"
ENC_INIT_STATUS_INVALID_CALLBACKS == "FLAC__STREAM_ENCODER_INIT_STATUS_INVALID_CALLBACKS"
ENC_INIT_STATUS_INVALID_SAMPLE_RATE == "FLAC__STREAM_ENCODER_INIT_STATUS_INVALID_SAMPLE_RATE"
ENC_INIT_STATUS_INVALID_BLOCK_SIZE == "FLAC__STREAM_ENCODER_INIT_STATUS_INVALID_BLOCK_SIZE"
ENC_INIT_STATUS_NOT_STREAMABLE == "FLAC__STREAM_ENCODER_INIT_STATUS_NOT_STREAMABLE"
ENC_INIT_STATUS_ALREADY_INITIALIZED == "FLAC__STREAM_ENCODER_INIT_STATUS_ALREADY_INITIALIZED"

\* FLAC__StreamEncoderState (builder/encoder.py:51-61).
ENC_OK == "FLAC__STREAM_ENCODER_OK"
ENC_UNINITIALIZED == "FLAC__STREAM_ENCODER_UNINITIALIZED"
ENC_CLIENT_ERROR == "FLAC__STREAM_ENCODER_CLIENT_ERROR"
ENC_IO_ERROR == "FLAC__STREAM_ENCODER_IO_ERROR"
ENC_VERIFY_MISMATCH == "FLAC__STREAM_ENCODER_VERIFY_MISMATCH_IN_AUDIO_DATA"

\* FLAC__StreamEncoderWriteStatus (builder/encoder.py:103-106).
ENC_WRITE_STATUS_OK == "FLAC__STREAM_ENCODER_WRITE_STATUS_OK"
ENC_WRITE_STATUS_FATAL_ERROR == "FLAC__STREAM_ENCODER_WRITE_STATUS_FATAL_ERROR"

\* The engine's value of a setting no setter has been called for.
Default == 0

\* Constructor arguments, by what the engine's init call makes of them
\* (tests/test_encoder.py:139-164): a valid configuration, sample_rate =
\* 2000000, blocksize = 1000000, blocksize = 65535 with streamable_subset.
Configs == {"valid", "invalid_sample_rate", "invalid_block_size", "not_streamable"}

\* An argument of process(): its Python type, and for an array its
\* dimensions, the length of its second axis and its dtype's itemsize.
Samples(type, ndim, columns, itemsize) ==
    [type |-> type, ndim |-> ndim, columns |-> columns, itemsize |-> itemsize]

\* numpy arrays passed to process(): 1-D int16, 2-D int16 with one column,
\* 2-D int32 with two columns.
Arrays == {Samples("ndarray", 1, 0, 2),
           Samples("ndarray", 2, 1, 2),
           Samples("ndarray", 2, 2, 4)}

\* Arguments of process() that are not numpy arrays, such as [1, 2, 3, 4]
\* (tests/test_encoder.py:93).
NonArrays == {Samples("list", 1, 0, 0)}

\* No argument: before the first process() call, and for finish().
NoSamples == Samples("none", 0, 0, 0)

VARIABLES
    cls,            \* the class of the object the behaviour follows
    rc,             \* local rc of the constructor / of _init: the init status
    fdec,           \* the FileDecoder object and its engine, a record
    enc,            \* the StreamEncoder / FileEncoder object and its engine
    buffer,         \* self._buffer: deque of chunks, index 1 is the left end
    done,           \* self._done
    error,          \* self._error
    cpc,            \* caller thread: position inside finish(), or "idle"
    wpc,            \* worker thread: position inside _process / _read_callback
    flac,           \* engine handle: "active" after init_stream, "finished"
                    \* after FLAC__stream_decoder_finish
    num_bytes,      \* num_bytes[0]: in the request size, out the byte count
    maximum_bytes,  \* local of _read_callback
    data,           \* local of _read_callback
    status,         \* status the last _read_callback invocation returned
    requested,      \* history: num_bytes[0] on entry of the current/last pull
    waited,         \* history: the current/last pull slept in the wait loop
    submitted,      \* history: every chunk passed to process(), in order
    delivered,      \* history: every byte memmove'd to the engine, in order
    writeAbort,     \* history: why _write_callback answered ABORT: "none",
                    \* "frame" (not 16 bits), "consumer" (decoder.callback raised)
    lastCall,       \* history: the call the caller made last
    outcome,        \* history: how the last call that ended ended: "ok", "raised"
    errAtCall,      \* history: error was recorded when that call began
    finishCalls,    \* history: finish() calls in a row (process() resets it)
    raced           \* history: the last call was a process() that appended
                    \* while a pull was between its emptiness test and its return

sharedVars == <<buffer, done, error, flac>>
workerVars == <<wpc, num_bytes, maximum_bytes, data, status, requested, waited, delivered,
                writeAbort>>
callerVars == <<cpc, submitted, lastCall, outcome, errAtCall, finishCalls, raced>>
streamVars == <<buffer, done, error, flac, wpc, num_bytes, maximum_bytes, data,
                status, requested, waited, delivered, writeAbort, cpc,
                submitted, lastCall, outcome, errAtCall, finishCalls, raced>>
\* What the methods of a StreamDecoder leave alone.
otherVars == <<cls, rc, fdec, enc>>
vars == <<cls, rc, fdec, enc, buffer, done, error, flac, wpc, num_bytes, maximum_bytes,
          data, status, requested, waited, delivered, writeAbort, cpc,
          submitted, lastCall, outcome, errAtCall, finishCalls, raced>>

\* ---------------------------------------------------------------- helpers
\* bytes(range(first, first + n)): the next n bytes of the numbered stream.
Bytes(first, n) == [i \in 1..n |-> first + i - 1]

RECURSIVE Flatten(_)
\* b''.join(chunks)
Flatten(chunks) ==
    IF chunks = <<>> THEN <<>> ELSE Head(chunks) \o Flatten(Tail(chunks))

IsPrefix(s, t) == Len(s) <= Len(t) /\ SubSeq(t, 1, Len(s)) = s

\* `if decoder._error:` / `if self._error:` : None and '' are falsy.
Truthy(e) == e # None /\ e # ""

\* p is the end of a submitted chunk (or the start of the stream).
ChunkEnd(p) ==
    \E k \in 0..Len(submitted) : Len(Flatten(SubSeq(submitted, 1, k))) = p

\* Positions of _read_callback after its emptiness test (decoder.py:344-355).
RcBody == {"rc_fit", "rc_pop", "rc_more", "rc_slice", "rc_store", "rc_ret"}

\* ------------------------------------------------------------------ Init
\* A FileDecoder after _Decoder.__init__ and decoder.py:251-257: the engine
\* handle is new, no output file is open, nothing was decoded.
FileDecoderNew ==
    [pc |-> "new", state |-> STATE_UNINITIALIZED, output |-> None,
     produced |-> <<>>, consumed |-> <<>>, wstatus |-> NoStatus,
     result |-> Unset, loopState |-> Unset, finished |-> FALSE, ret |-> Unset]

\* An encoder after _Encoder.__init__ (encoder.py:71-79): _initialised is
\* False and the engine handle is new; the subclass constructor has not run.
EncoderNew ==
    [pc |-> "new", initialised |-> FALSE, state |-> ENC_UNINITIALIZED,
     config |-> Unset, seek |-> FALSE, tell |-> FALSE, metadata |-> FALSE,
     registered |-> {}, invoked |-> "none", tstatus |-> "none",
     channels |-> Default, bits_per_sample |-> Default,
     arg |-> NoSamples, calls |-> <<>>, lastCall |-> "none", outcome |-> "none",
     code |-> Unset, processCalls |-> 0, finishCalls |-> 0,
     produced |-> <<>>, written |-> <<>>, wstatus |-> NoStatus,
     raisedIn |-> "none"]

\* The state after _Decoder.__init__ (decoder.py:79-87) and the field
\* assignments of the subclass constructor (decoder.py:158-162, 251-257):
\* the engine handle is new, the init call is still to be made, no thread
\* exists.
Init ==
    /\ cls \in Classes
    /\ rc = Unset
    /\ fdec = FileDecoderNew
    /\ enc = EncoderNew
    /\ buffer = <<>>
    /\ done = FALSE
    /\ error = None
    /\ flac = "uninitialized"
    /\ cpc = "new"
    /\ wpc = "unstarted"
    /\ num_bytes = 0
    /\ maximum_bytes = 0
    /\ data = <<>>
    /\ status = NoStatus
    /\ requested = 0
    /\ waited = FALSE
    /\ submitted = <<>>
    /\ delivered = <<>>
    /\ writeAbort = "none"
    /\ lastCall = "none"
    /\ outcome = "none"
    /\ errAtCall = FALSE
    /\ finishCalls = 0
    /\ raced = FALSE

\* ------------------------------------------- StreamDecoder.__init__
\* Mutant of StreamDecoderInit: the worker thread is started before the init
\* status is tested.
StreamDecoderInit_ThreadFirst ==
    /\ cls = "StreamDecoder"
    /\ cpc = "new"
    /\ \E r \in StreamInitStatuses :
          /\ rc' = r
          /\ wpc' = "engine"
          /\ IF r # INIT_STATUS_OK
                THEN /\ cpc' = "init_raised"
                     /\ outcome' = "DecoderInitException"
                     /\ flac' = flac
                ELSE /\ cpc' = "idle"
                     /\ outcome' = outcome
                     /\ flac' = "active"
    /\ UNCHANGED <<buffer, done, error>>
    /\ UNCHANGED <<num_bytes, maximum_bytes, data, status, requested, waited, delivered, writeAbort>>
    /\ UNCHANGED <<submitted, lastCall, errAtCall, finishCalls, raced>>
    /\ UNCHANGED <<cls, fdec, enc>>

\* decoder.py:164-181: rc = init_stream(...); if rc != OK: raise
\* DecoderInitException(rc); otherwise the daemon thread is created and
\* started on _process.
StreamDecoderInit ==
    /\ cls = "StreamDecoder"
    /\ cpc = "new"
    /\ \E r \in StreamInitStatuses :
          /\ rc' = r
          /\ IF r # INIT_STATUS_OK
                THEN /\ cpc' = "init_raised"
                     /\ outcome' = "DecoderInitException"
                     /\ UNCHANGED <<flac, wpc>>
                ELSE /\ cpc' = "idle"
                     /\ outcome' = outcome
                     /\ flac' = "active"
                     /\ wpc' = "engine"
    /\ UNCHANGED <<buffer, done, error>>
    /\ UNCHANGED <<num_bytes, maximum_bytes, data, status, requested, waited, delivered, writeAbort>>
    /\ UNCHANGED <<submitted, lastCall, errAtCall, finishCalls, raced>>
    /\ UNCHANGED <<cls, fdec, enc>>

\* --------------------------------------------------- caller: process()
\* StreamDecoder.process(data): self._buffer.append(data), nothing else.
\* It reads neither _error nor _done and has no raise statement.
Submit(n) ==
    /\ cpc = "idle"
    /\ LET chunk == Bytes(Len(Flatten(submitted)) + 1, n) IN
          /\ buffer' = Append(buffer, chunk)
          /\ submitted' = Append(submitted, chunk)
    /\ lastCall' = "process"
    /\ outcome' = "ok"
    /\ errAtCall' = Truthy(error)
    /\ finishCalls' = 0
    /\ raced' = (wpc \in RcBody)
    /\ UNCHANGED <<done, error, flac, cpc>>
    /\ UNCHANGED workerVars
    /\ UNCHANGED otherVars

\* The caller calls process() with a chunk of any length up to MaxChunkLen.
Process ==
    /\ Len(submitted) < MaxChunks
    /\ \E n \in 0..MaxChunkLen : Submit(n)

\* ---------------------------------------------------- caller: finish()
\* self._thread.is_alive(): the thread object is alive until _process returns.
IsAlive == wpc # "dead"

\* Mutant of DrainCondition: the loop does not test whether the worker
\* thread is alive.
DrainCondition_IgnoresDeath == error = None /\ Len(buffer) > 0

\* Mutant of DrainCondition: the loop stops waiting while one chunk is still
\* in the deque.
DrainCondition_LeavesOne == IsAlive /\ error = None /\ Len(buffer) > 1

\* decoder.py:221, the condition of finish()'s wait loop.
DrainCondition == IsAlive /\ error = None /\ Len(buffer) > 0

\* Mutant of ShouldRaise: only the failure recorded by _process is raised, an
\* error recorded by _error_callback is dropped.
ShouldRaise_OnlyFatal(e) == e = FatalMessage

\* decoder.py:230, `if self._error:`.
ShouldRaise(e) == Truthy(e)

\* The caller enters StreamDecoder.finish().
FinishCall ==
    /\ cpc = "idle"
    /\ finishCalls < MaxFinish
    /\ cpc' = "f_drain"
    /\ lastCall' = "finish"
    /\ outcome' = outcome
    /\ errAtCall' = Truthy(error)
    /\ finishCalls' = finishCalls + 1
    /\ raced' = FALSE
    /\ UNCHANGED <<submitted>>
    /\ UNCHANGED sharedVars
    /\ UNCHANGED workerVars
    /\ UNCHANGED otherVars

\* decoder.py:221-222: while alive and no error and buffer not empty: sleep.
FinishDrainTest ==
    /\ cpc = "f_drain"
    /\ cpc' = IF DrainCondition THEN "f_sleep" ELSE "f_done"
    /\ UNCHANGED <<submitted, lastCall, outcome, errAtCall, finishCalls, raced>>
    /\ UNCHANGED sharedVars
    /\ UNCHANGED workerVars
    /\ UNCHANGED otherVars

\* decoder.py:222: time.sleep(0.01), then the condition is tested again.
FinishSleep ==
    /\ cpc = "f_sleep"
    /\ cpc' = "f_drain"
    /\ UNCHANGED <<submitted, lastCall, outcome, errAtCall, finishCalls, raced>>
    /\ UNCHANGED sharedVars
    /\ UNCHANGED workerVars
    /\ UNCHANGED otherVars

\* decoder.py:227: self._done = True.  The next statement, super().finish()
\* (line 228, _Decoder.finish, line 98), enters FLAC__stream_decoder_finish
\* on the caller thread: at "f_inflac" the caller is inside the engine.
FinishSetDone ==
    /\ cpc = "f_done"
    /\ done' = TRUE
    /\ cpc' = "f_inflac"
    /\ UNCHANGED <<buffer, error, flac>>
    /\ UNCHANGED <<submitted, lastCall, outcome, errAtCall, finishCalls, raced>>
    /\ UNCHANGED workerVars
    /\ UNCHANGED otherVars

\* FLAC__stream_decoder_finish returns: the handle is back to UNINITIALIZED.
FinishEngineReturn ==
    /\ cpc = "f_inflac"
    /\ flac' = "finished"
    /\ cpc' = "f_join"
    /\ UNCHANGED <<buffer, done, error>>
    /\ UNCHANGED <<submitted, lastCall, outcome, errAtCall, finishCalls, raced>>
    /\ UNCHANGED workerVars
    /\ UNCHANGED otherVars

\* decoder.py:229: self._thread.join(timeout=3) returns when the worker has
\* terminated, or when the timeout has elapsed with the worker still alive.
FinishJoin ==
    /\ cpc = "f_join"
    /\ cpc' = "f_check"
    /\ UNCHANGED <<submitted, lastCall, outcome, errAtCall, finishCalls, raced>>
    /\ UNCHANGED sharedVars
    /\ UNCHANGED workerVars
    /\ UNCHANGED otherVars

\* Mutant of FinishCheck: finish() returns without looking at _error.
FinishCheck_NeverRaises ==
    /\ cpc = "f_check"
    /\ outcome' = "ok"
    /\ cpc' = "idle"
    /\ UNCHANGED <<submitted, lastCall, errAtCall, finishCalls, raced>>
    /\ UNCHANGED sharedVars
    /\ UNCHANGED workerVars
    /\ UNCHANGED otherVars

\* Mutant of FinishCheck: the error is cleared once it has been raised.
FinishCheck_ClearsError ==
    /\ cpc = "f_check"
    /\ outcome' = IF ShouldRaise(error) THEN "raised" ELSE "ok"
    /\ error' = None
    /\ cpc' = "idle"
    /\ UNCHANGED <<buffer, done, flac>>
    /\ UNCHANGED <<submitted, lastCall, errAtCall, finishCalls, raced>>
    /\ UNCHANGED workerVars
    /\ UNCHANGED otherVars

\* decoder.py:230-231: if self._error: raise DecoderProcessException.
FinishCheck ==
    /\ cpc = "f_check"
    /\ outcome' = IF ShouldRaise(error) THEN "raised" ELSE "ok"
    /\ cpc' = "idle"
    /\ UNCHANGED <<submitted, lastCall, errAtCall, finishCalls, raced>>
    /\ UNCHANGED sharedVars
    /\ UNCHANGED workerVars
    /\ UNCHANGED otherVars

\* ------------------------------------------- worker: libFLAC's loop
\* FLAC__stream_decoder_process_until_end_of_stream (called at decoder.py:190)
\* is libFLAC's; it is modelled by what it may do to this program: call
\* _read_callback with any request size, call _error_callback, and return.
\* After a read callback answered END_OF_STREAM or ABORT the loop issues no
\* further read and returns.
Pull(n) ==
    /\ wpc = "engine"
    /\ status \in {NoStatus, CONTINUE}
    /\ num_bytes' = n
    /\ requested' = n
    /\ wpc' = "rc_error"
    /\ waited' = FALSE
    /\ maximum_bytes' = 0
    /\ data' = <<>>
    /\ UNCHANGED <<status, delivered, writeAbort>>
    /\ UNCHANGED sharedVars
    /\ UNCHANGED callerVars
    /\ UNCHANGED otherVars

\* The loop issues a read of any size up to MaxRequest.
EngineRead == \E n \in 0..MaxRequest : Pull(n)

\* _error_callback (decoder.py:438-449): decoder._error = message.  The engine
\* calls it on the worker thread, between two read callbacks.
ErrorCallback ==
    /\ wpc = "engine"
    /\ error' = CallbackMessage
    /\ UNCHANGED <<buffer, done, flac>>
    /\ UNCHANGED workerVars
    /\ UNCHANGED callerVars
    /\ UNCHANGED otherVars

\* The loop returns true: only once the stream has ended or was aborted, or
\* after the handle was finished under the loop.  _process returns and the
\* thread terminates.
EngineReturnTrue ==
    /\ wpc = "engine"
    /\ status \in {END_OF_STREAM, ABORT} \/ flac = "finished"
    /\ wpc' = "dead"
    /\ UNCHANGED <<num_bytes, maximum_bytes, data, status, requested, waited, delivered, writeAbort>>
    /\ UNCHANGED sharedVars
    /\ UNCHANGED callerVars
    /\ UNCHANGED otherVars

\* The loop returns false (decoder.py:190): a fatal read, write or memory
\* allocation error, at any point of the loop.
EngineReturnFalse ==
    /\ wpc = "engine"
    /\ wpc' = "failed"
    /\ UNCHANGED <<num_bytes, maximum_bytes, data, status, requested, waited, delivered, writeAbort>>
    /\ UNCHANGED sharedVars
    /\ UNCHANGED callerVars
    /\ UNCHANGED otherVars

\* decoder.py:191: self._error = 'A fatal read, write, ...'; the thread ends.
ProcessRecordFailure ==
    /\ wpc = "failed"
    /\ error' = FatalMessage
    /\ wpc' = "dead"
    /\ UNCHANGED <<buffer, done, flac>>
    /\ UNCHANGED <<num_bytes, maximum_bytes, data, status, requested, waited, delivered, writeAbort>>
    /\ UNCHANGED callerVars
    /\ UNCHANGED otherVars

\* ------------------------------------------- worker: _read_callback
\* Mutant of FitsRequest: a chunk exactly as long as the request is not
\* popped.
FitsRequest_Strict(chunk, max) == Len(chunk) < max

\* decoder.py:344, `len(decoder._buffer[0]) <= maximum_bytes`.
FitsRequest(chunk, max) == Len(chunk) <= max

\* Mutant of NeedsSlice: a head chunk one byte longer than what is left of
\* the request is not sliced.
NeedsSlice_Lenient(buf, max) == Len(buf) > 0 /\ Len(buf[1]) > max + 1

\* decoder.py:348, `len(decoder._buffer) > 0 and len(decoder._buffer[0]) > maximum_bytes`.
NeedsSlice(buf, max) == Len(buf) > 0 /\ Len(buf[1]) > max

\* Mutant of SlicePrefix: the slice is cut at the size the engine asked for
\* instead of at what is left of it after the popped chunk.
SlicePrefix_FullRequest(chunk, max) ==
    SubSeq(chunk, 1, IF requested < Len(chunk) THEN requested ELSE Len(chunk))

\* decoder.py:349, `decoder._buffer[0][0:maximum_bytes]`.
SlicePrefix(chunk, max) == SubSeq(chunk, 1, max)

\* Mutant of SliceRemainder: the remainder starts one byte too late.
SliceRemainder_OffByOne(chunk, max) == SubSeq(chunk, max + 2, Len(chunk))

\* decoder.py:350, `decoder._buffer[0][maximum_bytes:]`.
SliceRemainder(chunk, max) == SubSeq(chunk, max + 1, Len(chunk))

\* Mutant of RcCheckError: the error test is skipped.
RcCheckError_Ignored ==
    /\ wpc = "rc_error"
    /\ wpc' = "rc_done"
    /\ UNCHANGED <<num_bytes, maximum_bytes, data, status, requested, waited, delivered, writeAbort>>
    /\ UNCHANGED sharedVars
    /\ UNCHANGED callerVars
    /\ UNCHANGED otherVars

\* decoder.py:317-322: `if decoder._error: return ABORT`, num_bytes untouched.
RcCheckError ==
    /\ wpc = "rc_error"
    /\ IF Truthy(error)
          THEN /\ status' = ABORT
               /\ wpc' = "engine"
          ELSE /\ status' = status
               /\ wpc' = "rc_done"
    /\ UNCHANGED <<num_bytes, maximum_bytes, data, requested, waited, delivered, writeAbort>>
    /\ UNCHANGED sharedVars
    /\ UNCHANGED callerVars
    /\ UNCHANGED otherVars

\* decoder.py:324-332: `if decoder._done: num_bytes[0] = 0; return
\* END_OF_STREAM`, else maximum_bytes = int(num_bytes[0]).
RcCheckDone ==
    /\ wpc = "rc_done"
    /\ IF done
          THEN /\ num_bytes' = 0
               /\ status' = END_OF_STREAM
               /\ wpc' = "engine"
               /\ maximum_bytes' = maximum_bytes
          ELSE /\ maximum_bytes' = num_bytes
               /\ wpc' = "rc_wait"
               /\ UNCHANGED <<num_bytes, status>>
    /\ UNCHANGED <<data, requested, waited, delivered, writeAbort>>
    /\ UNCHANGED sharedVars
    /\ UNCHANGED callerVars
    /\ UNCHANGED otherVars

\* decoder.py:333: `while len(decoder._buffer) == 0:`; the condition reads
\* neither _done nor _error.  On exit, data = bytes() (line 343).
RcWaitTest ==
    /\ wpc = "rc_wait"
    /\ wpc' = IF Len(buffer) = 0 THEN "rc_sleep" ELSE "rc_fit"
    /\ waited' = (waited \/ Len(buffer) = 0)
    /\ data' = <<>>
    /\ UNCHANGED <<num_bytes, maximum_bytes, status, requested, delivered, writeAbort>>
    /\ UNCHANGED sharedVars
    /\ UNCHANGED callerVars
    /\ UNCHANGED otherVars

\* decoder.py:337: time.sleep(0.01), then the condition is tested again.
RcSleep ==
    /\ wpc = "rc_sleep"
    /\ wpc' = "rc_wait"
    /\ UNCHANGED <<num_bytes, maximum_bytes, data, status, requested, waited, delivered, writeAbort>>
    /\ UNCHANGED sharedVars
    /\ UNCHANGED callerVars
    /\ UNCHANGED otherVars

\* decoder.py:344: the length test on the head chunk.
RcFitTest ==
    /\ wpc = "rc_fit"
    /\ wpc' = IF FitsRequest(buffer[1], maximum_bytes) THEN "rc_pop" ELSE "rc_more"
    /\ UNCHANGED <<num_bytes, maximum_bytes, data, status, requested, waited, delivered, writeAbort>>
    /\ UNCHANGED sharedVars
    /\ UNCHANGED callerVars
    /\ UNCHANGED otherVars

\* Mutant of RcPopleft: the request is not reduced by the popped chunk.
RcPopleft_KeepsRequest ==
    /\ wpc = "rc_pop"
    /\ data' = Head(buffer)
    /\ buffer' = Tail(buffer)
    /\ wpc' = "rc_more"
    /\ UNCHANGED <<done, error, flac>>
    /\ UNCHANGED <<num_bytes, maximum_bytes, status, requested, waited, delivered, writeAbort>>
    /\ UNCHANGED callerVars
    /\ UNCHANGED otherVars

\* decoder.py:345-346: data = decoder._buffer.popleft(); maximum_bytes -= len(data).
RcPopleft ==
    /\ wpc = "rc_pop"
    /\ data' = Head(buffer)
    /\ buffer' = Tail(buffer)
    /\ maximum_bytes' = maximum_bytes - Len(Head(buffer))
    /\ wpc' = "rc_more"
    /\ UNCHANGED <<done, error, flac>>
    /\ UNCHANGED <<num_bytes, status, requested, waited, delivered, writeAbort>>
    /\ UNCHANGED callerVars
    /\ UNCHANGED otherVars

\* decoder.py:348: the test that guards the slice.
RcMoreTest ==
    /\ wpc = "rc_more"
    /\ wpc' = IF NeedsSlice(buffer, maximum_bytes) THEN "rc_slice" ELSE "rc_ret"
    /\ UNCHANGED <<num_bytes, maximum_bytes, data, status, requested, waited, delivered, writeAbort>>
    /\ UNCHANGED sharedVars
    /\ UNCHANGED callerVars
    /\ UNCHANGED otherVars

\* Mutant of RcSlice: the prefix of the next chunk is put in front of the
\* popped chunk instead of behind it.
RcSlice_Prepend ==
    /\ wpc = "rc_slice"
    /\ data' = SlicePrefix(buffer[1], maximum_bytes) \o data
    /\ wpc' = "rc_store"
    /\ UNCHANGED <<num_bytes, maximum_bytes, status, requested, waited, delivered, writeAbort>>
    /\ UNCHANGED sharedVars
    /\ UNCHANGED callerVars
    /\ UNCHANGED otherVars

\* decoder.py:349: data += decoder._buffer[0][0:maximum_bytes].
RcSlice ==
    /\ wpc = "rc_slice"
    /\ data' = data \o SlicePrefix(buffer[1], maximum_bytes)
    /\ wpc' = "rc_store"
    /\ UNCHANGED <<num_bytes, maximum_bytes, status, requested, waited, delivered, writeAbort>>
    /\ UNCHANGED sharedVars
    /\ UNCHANGED callerVars
    /\ UNCHANGED otherVars

\* Mutant of RcStore: the remainder of the head chunk is dropped with the
\* chunk instead of being kept at the head of the deque.
RcStore_DropsRemainder ==
    /\ wpc = "rc_store"
    /\ buffer' = Tail(buffer)
    /\ wpc' = "rc_ret"
    /\ UNCHANGED <<done, error, flac>>
    /\ UNCHANGED <<num_bytes, maximum_bytes, data, status, requested, waited, delivered, writeAbort>>
    /\ UNCHANGED callerVars
    /\ UNCHANGED otherVars

\* decoder.py:350: decoder._buffer[0] = decoder._buffer[0][maximum_bytes:].
RcStore ==
    /\ wpc = "rc_store"
    /\ buffer' = [buffer EXCEPT ![1] = SliceRemainder(buffer[1], maximum_bytes)]
    /\ wpc' = "rc_ret"
    /\ UNCHANGED <<done, error, flac>>
    /\ UNCHANGED <<num_bytes, maximum_bytes, data, status, requested, waited, delivered, writeAbort>>
    /\ UNCHANGED callerVars
    /\ UNCHANGED otherVars

\* Mutant of RcReturn: a pull that obtained no bytes answers END_OF_STREAM.
RcReturn_EmptyEndsStream ==
    /\ wpc = "rc_ret"
    /\ num_bytes' = Len(data)
    /\ delivered' = delivered \o data
    /\ status' = IF data = <<>> THEN END_OF_STREAM ELSE CONTINUE
    /\ wpc' = "engine"
    /\ UNCHANGED <<maximum_bytes, data, requested, waited, writeAbort>>
    /\ UNCHANGED sharedVars
    /\ UNCHANGED callerVars
    /\ UNCHANGED otherVars

\* decoder.py:352-355: num_bytes[0] = len(data); memmove(byte_buffer, data,
\* actual_bytes); return CONTINUE.
RcReturn ==
    /\ wpc = "rc_ret"
    /\ num_bytes' = Len(data)
    /\ delivered' = delivered \o data
    /\ status' = CONTINUE
    /\ wpc' = "engine"
    /\ UNCHANGED <<maximum_bytes, data, requested, waited, writeAbort>>
    /\ UNCHANGED sharedVars
    /\ UNCHANGED callerVars
    /\ UNCHANGED otherVars

\* ------------------------------------------- decoder: _write_callback
\* The frame with the given index, as the engine hands it to _write_callback.
Frame(i, bits) == [index |-> i, bits_per_sample |-> bits]

\* decoder.py:405-406: a frame that is not 16 bits per sample raises
\* ValueError before decoder.callback is reached (lines 421-426).
Forwards(frame) == frame.bits_per_sample = 16

\* Mutant of WriteStatus: an exception inside the callback is not turned
\* into the abort status.
WriteStatus_AlwaysContinue(frame, raised) == WRITE_STATUS_CONTINUE

\* decoder.py:385 and 428: the callback returns CONTINUE, and def_extern's
\* error value ABORT when an exception escaped it (the ValueError of line 406
\* or an exception raised by decoder.callback).
WriteStatus(frame, raised) ==
    IF Forwards(frame) /\ ~raised THEN WRITE_STATUS_CONTINUE ELSE WRITE_STATUS_ABORT

\* The loop of a StreamDecoder, having decoded a frame from the bytes it was
\* given, calls _write_callback on the worker thread (decoder.py:385-428).
\* Answered CONTINUE it goes on; answered ABORT it returns False to _process
\* (decoder.py:190).
WriteCallback ==
    /\ wpc = "engine"
    /\ delivered # <<>>
    /\ \E bits \in BitsPerSample, raised \in BOOLEAN :
          LET frame == Frame(1, bits) IN
          /\ wpc' = IF WriteStatus(frame, raised) = WRITE_STATUS_ABORT
                       THEN "failed" ELSE wpc
          /\ writeAbort' = IF ~Forwards(frame) THEN "frame"
                           ELSE IF raised THEN "consumer"
                           ELSE writeAbort
    /\ UNCHANGED <<num_bytes, maximum_bytes, data, status, requested, waited, delivered>>
    /\ UNCHANGED sharedVars
    /\ UNCHANGED callerVars
    /\ UNCHANGED otherVars

\* ----------------------------------------------------------- FileDecoder
\* decoder.py:259-271: rc = init_file(...); if rc != OK: raise
\* DecoderInitException(rc).
FileDecoderInit ==
    /\ cls = "FileDecoder"
    /\ fdec.pc = "new"
    /\ \E r \in FileInitStatuses :
          /\ rc' = r
          /\ fdec' = IF r # INIT_STATUS_OK
                        THEN [fdec EXCEPT !.pc = "init_raised"]
                        ELSE [fdec EXCEPT !.pc = "idle", !.state = SEARCH_FOR_METADATA]
    /\ UNCHANGED <<cls, enc>>
    /\ UNCHANGED streamVars

\* decoder.py:283: FileDecoder.process() enters
\* FLAC__stream_decoder_process_until_end_of_stream on the caller's thread.
FileProcessCall ==
    /\ fdec.pc = "idle"
    /\ fdec' = [fdec EXCEPT !.pc = "loop"]
    /\ UNCHANGED <<cls, rc, enc>>
    /\ UNCHANGED streamVars

\* FileDecoder._callback (decoder.py:294-303), the consumer of a FileDecoder:
\* it opens the output file on the first frame and writes the frame; either
\* statement may raise.
FileCallbackOutput(output, consumer) ==
    IF consumer = "raises_open" THEN output ELSE "open"

\* The engine's loop hands the next decoded frame to _write_callback
\* (decoder.py:385-428).  After an ABORT the loop makes no further call.
FileWriteCallback ==
    /\ fdec.pc = "loop"
    /\ fdec.wstatus # WRITE_STATUS_ABORT
    /\ Len(fdec.produced) < MaxFrames
    /\ \E bits \in BitsPerSample, consumer \in {"returns", "raises_open", "raises_write"} :
          LET frame == Frame(Len(fdec.produced) + 1, bits) IN
          fdec' = [fdec EXCEPT
                     !.produced = Append(@, frame),
                     !.consumed = IF Forwards(frame) THEN Append(@, frame) ELSE @,
                     !.output = IF Forwards(frame)
                                   THEN FileCallbackOutput(@, consumer) ELSE @,
                     !.wstatus = WriteStatus(frame, consumer # "returns")]
    /\ UNCHANGED <<cls, rc, enc>>
    /\ UNCHANGED streamVars

\* What FLAC__stream_decoder_process_until_end_of_stream can answer, with
\* the decoder state it leaves: true at the end of the stream; false with
\* the state ABORTED after a write callback answered ABORT; false after a
\* read or allocation failure, and false with the state END_OF_STREAM when
\* the file ends inside the metadata or inside a frame.
LoopMayReturn(result, state, wstatus) ==
    IF wstatus = WRITE_STATUS_ABORT
        THEN ~result /\ state = STATE_ABORTED
        ELSE \/ result /\ state = STATE_END_OF_STREAM
             \/ ~result /\ state \in {STATE_END_OF_STREAM, STATE_ABORTED,
                                        STATE_MEMORY_ALLOCATION_ERROR}

\* Mutant of ProcessRaises: every failure of the loop is raised.
ProcessRaises_EveryFailure(state, result) == ~result

\* decoder.py:285, `if self.state != DecoderState.END_OF_STREAM and not result:`.
ProcessRaises(state, result) == state # STATE_END_OF_STREAM /\ ~result

\* decoder.py:283-292: the loop returns; process() raises
\* DecoderProcessException(str(self.state)), or calls self.finish(), closes
\* the output and returns what sf.read gives, or returns None when no output
\* file was opened.
FileProcessReturn ==
    /\ fdec.pc = "loop"
    /\ \E result \in BOOLEAN,
          state \in {STATE_END_OF_STREAM, STATE_ABORTED, STATE_MEMORY_ALLOCATION_ERROR} :
          /\ LoopMayReturn(result, state, fdec.wstatus)
          /\ fdec' = IF ProcessRaises(state, result)
                        THEN [fdec EXCEPT !.pc = "raised", !.state = state,
                                          !.result = result, !.loopState = state]
                        ELSE [fdec EXCEPT !.pc = "returned",
                                          !.state = STATE_UNINITIALIZED,
                                          !.finished = TRUE,
                                          !.result = result, !.loopState = state,
                                          !.output = IF @ = None THEN None ELSE "closed",
                                          !.ret = IF fdec.output = None
                                                    THEN "None" ELSE "audio"]
    /\ UNCHANGED <<cls, rc, enc>>
    /\ UNCHANGED streamVars

\* ------------------------------------------------ encoder: the engine
\* libFLAC's encoder is modelled by what it does to this program.  Its init
\* call validates the configuration, then (init_stream) writes the stream
\* header through the write callback; process_interleaved and finish write
\* frames through it.  A write callback that answers FATAL_ERROR makes the
\* call in progress fail and leaves the state CLIENT_ERROR.

\* The status the init call answers before it writes anything
\* (tests/test_encoder.py:139-157, 202-207).
EngineValidation(e, class) ==
    IF e.state # ENC_UNINITIALIZED THEN ENC_INIT_STATUS_ALREADY_INITIALIZED
    ELSE IF "seek" \in e.registered /\ "tell" \notin e.registered
        THEN ENC_INIT_STATUS_INVALID_CALLBACKS
    ELSE IF e.config = "invalid_sample_rate" THEN ENC_INIT_STATUS_INVALID_SAMPLE_RATE
    ELSE IF e.config = "invalid_block_size" THEN ENC_INIT_STATUS_INVALID_BLOCK_SIZE
    ELSE IF e.config = "not_streamable" THEN ENC_INIT_STATUS_NOT_STREAMABLE
    ELSE ENC_INIT_STATUS_OK

\* The statuses the init call can answer: the validation's, and for a valid
\* configuration ENCODER_ERROR when writing the header failed (the write
\* callback answered FATAL_ERROR, the tell callback answered its error
\* status, or init_file could not write its file).
EngineInitStatuses(e, class) ==
    IF EngineValidation(e, class) # ENC_INIT_STATUS_OK
        THEN {EngineValidation(e, class)}
    ELSE IF e.wstatus = ENC_WRITE_STATUS_FATAL_ERROR \/ e.tstatus = "error"
        THEN {ENC_INIT_STATUS_ENCODER_ERROR}
    ELSE IF class = "FileEncoder"
        THEN {ENC_INIT_STATUS_OK, ENC_INIT_STATUS_ENCODER_ERROR}
    ELSE {ENC_INIT_STATUS_OK}

\* A setter of the engine takes effect only while the engine is
\* uninitialised.
EngineSet(e, old, value) == IF e.state = ENC_UNINITIALIZED THEN value ELSE old

\* The results process_interleaved can answer, with the state it leaves.
EngineProcessResults(e) ==
    IF e.state # ENC_OK THEN {[result |-> FALSE, state |-> e.state]}
    ELSE IF e.wstatus = ENC_WRITE_STATUS_FATAL_ERROR
        THEN {[result |-> FALSE, state |-> ENC_CLIENT_ERROR]}
    ELSE {[result |-> TRUE, state |-> ENC_OK],
          [result |-> FALSE, state |-> ENC_VERIFY_MISMATCH]}

\* The value FLAC__stream_encoder_finish answers: false when the flush
\* failed or the encoder was in an error state.
EngineFinishResult(e) ==
    /\ e.wstatus # ENC_WRITE_STATUS_FATAL_ERROR
    /\ e.state \in {ENC_OK, ENC_UNINITIALIZED}

\* ------------------------------------------------------ encoder: wrappers
\* encoder.py:104-108: samples.shape[1], or 1 on IndexError (a 1-D array).
ChannelsOf(samples) == IF samples.ndim >= 2 THEN samples.columns ELSE 1

\* encoder.py:109: samples.dtype.itemsize * 8.
BitsOf(samples) == samples.itemsize * 8

\* Mutant of EncoderConstruct: the constructor performs the handshake.
EncoderConstruct_Handshake ==
    /\ cls \in EncoderClasses
    /\ enc.pc = "new"
    /\ \E config \in Configs, seek \in BOOLEAN, tell \in BOOLEAN, metadata \in BOOLEAN :
          /\ cls = "FileEncoder" => ~seek /\ ~tell /\ ~metadata
          /\ enc' = [enc EXCEPT !.pc = "idle", !.config = config,
                                !.seek = seek, !.tell = tell,
                                !.metadata = metadata,
                                !.initialised = TRUE, !.state = ENC_OK]
    /\ UNCHANGED <<cls, rc, fdec>>
    /\ UNCHANGED streamVars

\* StreamEncoder.__init__ (encoder.py:293-316) and FileEncoder.__init__
\* (encoder.py:363-387): the callbacks are stored and the settings are handed
\* to the engine's setters; no init call is made.  A callback is a function
\* or None.  A FileEncoder has no seek, tell or metadata callback.
EncoderConstruct ==
    /\ cls \in EncoderClasses
    /\ enc.pc = "new"
    /\ \E config \in Configs, seek \in BOOLEAN, tell \in BOOLEAN, metadata \in BOOLEAN :
          /\ cls = "FileEncoder" => ~seek /\ ~tell /\ ~metadata
          /\ enc' = [enc EXCEPT !.pc = "idle", !.config = config,
                                !.seek = seek, !.tell = tell,
                                !.metadata = metadata]
    /\ UNCHANGED <<cls, rc, fdec>>
    /\ UNCHANGED streamVars

\* The name of the init call of the class (encoder.py:319, 397).
InitCall(class) == IF class = "FileEncoder" THEN "init_file" ELSE "init_stream"

\* encoder.py:101-102, `if not isinstance(samples, np.ndarray)`.
IsArray(samples) == samples.type = "ndarray"

\* An engine call the wrapper makes, with the value it passes (0: none).
Call(name, value) == [call |-> name, value |-> value]

\* The encoder as process() or finish() finds it on entry: the bookkeeping
\* of the call before is cleared.
Entered(e, name, samples) ==
    [e EXCEPT !.lastCall = name, !.arg = samples, !.calls = <<>>,
              !.outcome = "running", !.code = Unset, !.raisedIn = "none",
              !.invoked = "none", !.tstatus = "none"]

\* The optional callbacks of a StreamEncoder.
Optional == {"seek", "tell", "metadata"}

\* self.seek_callback, self.tell_callback, self.metadata_callback is a
\* function (encoder.py:307-309), not None.
Supplied(e, cb) ==
    IF cb = "seek" THEN e.seek ELSE IF cb = "tell" THEN e.tell ELSE e.metadata

\* Mutant of InitCallbacks: every trampoline is registered.
InitCallbacks_All(e, class) == IF class = "StreamEncoder" THEN Optional ELSE {}

\* encoder.py:321-323, the optional trampolines _init() passes to
\* init_stream: `_lib._seek_callback if self.seek_callback else _ffi.NULL`
\* and the same for tell and metadata.  init_file (encoder.py:397-402) takes
\* none of them.
InitCallbacks(e, class) ==
    IF class = "StreamEncoder" THEN {cb \in Optional : Supplied(e, cb)} ELSE {}

\* Mutant of ProcessEntry: the channel count and the bit depth are set
\* before the argument is tested.
ProcessEntry_SetFirst(e, samples, class) ==
    IF ~IsArray(samples)
        THEN [Entered(e, "process", samples) EXCEPT
                !.channels = 1, !.bits_per_sample = 16,
                !.outcome = "TypeError"]
    ELSE IF ~e.initialised
        THEN [Entered(e, "process", samples) EXCEPT
                !.channels = EngineSet(e, @, ChannelsOf(samples)),
                !.bits_per_sample = EngineSet(e, @, BitsOf(samples)),
                !.calls = <<Call("set_channels", ChannelsOf(samples)),
                            Call("set_bits_per_sample", BitsOf(samples)),
                            Call(InitCall(class), 0)>>,
                !.registered = InitCallbacks(e, class),
                !.pc = "in_init"]
    ELSE [Entered(e, "process", samples) EXCEPT
                !.calls = <<Call("process_interleaved", 0)>>,
                !.pc = "in_process"]

\* Mutant of ProcessEntry: the handshake is repeated whenever the engine is
\* found uninitialised, instead of when the flag is false.
ProcessEntry_ReinitAfterFinish(e, samples, class) ==
    IF ~IsArray(samples)
        THEN [Entered(e, "process", samples) EXCEPT !.outcome = "TypeError"]
    ELSE IF e.state = ENC_UNINITIALIZED
        THEN [Entered(e, "process", samples) EXCEPT
                !.channels = EngineSet(e, @, ChannelsOf(samples)),
                !.bits_per_sample = EngineSet(e, @, BitsOf(samples)),
                !.calls = <<Call("set_channels", ChannelsOf(samples)),
                            Call("set_bits_per_sample", BitsOf(samples)),
                            Call(InitCall(class), 0)>>,
                !.registered = InitCallbacks(e, class),
                !.pc = "in_init"]
    ELSE [Entered(e, "process", samples) EXCEPT
                !.calls = <<Call("process_interleaved", 0)>>,
                !.pc = "in_process"]

\* _Encoder.process, encoder.py:101-115, up to the first engine call that
\* can call back: TypeError for an argument that is no numpy array; on an
\* encoder that is not initialised the channel count and the bit depth are
\* set from the array and _init() is entered; otherwise
\* process_interleaved is entered.
ProcessEntry(e, samples, class) ==
    IF ~IsArray(samples)
        THEN [Entered(e, "process", samples) EXCEPT !.outcome = "TypeError"]
    ELSE IF ~e.initialised
        THEN [Entered(e, "process", samples) EXCEPT
                !.channels = EngineSet(e, @, ChannelsOf(samples)),
                !.bits_per_sample = EngineSet(e, @, BitsOf(samples)),
                !.calls = <<Call("set_channels", ChannelsOf(samples)),
                            Call("set_bits_per_sample", BitsOf(samples)),
                            Call(InitCall(class), 0)>>,
                !.registered = InitCallbacks(e, class),
                !.pc = "in_init"]
    ELSE [Entered(e, "process", samples) EXCEPT
                !.calls = <<Call("process_interleaved", 0)>>,
                !.pc = "in_process"]

\* The caller calls process(samples) (encoder.py:86); FileEncoder.process()
\* passes the array it read from the input file (encoder.py:419).
EncoderProcessCall ==
    /\ cls \in EncoderClasses
    /\ enc.pc = "idle"
    /\ enc.processCalls < MaxChunks
    /\ \E samples \in Arrays \cup NonArrays :
          /\ cls = "FileEncoder" => samples \in Arrays
          /\ enc' = [ProcessEntry(enc, samples, cls) EXCEPT
                        !.processCalls = enc.processCalls + 1]
    /\ UNCHANGED <<cls, rc, fdec>>
    /\ UNCHANGED streamVars

\* The engine writes during the init call only once the configuration has
\* passed, and during process_interleaved and finish only on an encoder
\* that is initialised.
EngineWrites(e, class) ==
    IF e.pc = "in_init" THEN EngineValidation(e, class) = ENC_INIT_STATUS_OK
    ELSE e.pc \in {"in_process", "in_finish"} /\ e.state = ENC_OK

\* Mutant of EncoderWriteStatus: an exception of the consumer is dropped.
EncoderWriteStatus_AlwaysOk(raised) == ENC_WRITE_STATUS_OK

\* encoder.py:425 and 446: the callback returns OK, and def_extern's error
\* value FATAL_ERROR when encoder.write_callback raised.
EncoderWriteStatus(raised) ==
    IF raised THEN ENC_WRITE_STATUS_FATAL_ERROR ELSE ENC_WRITE_STATUS_OK

\* Mutant of EncoderWriteCallback: a chunk is kept back and forwarded
\* together with the next one, the newer chunk first.
EncoderWriteCallback_Buffered ==
    /\ cls = "StreamEncoder"
    /\ EngineWrites(enc, cls)
    /\ enc.wstatus # ENC_WRITE_STATUS_FATAL_ERROR
    /\ Len(enc.produced) < MaxFrames
    /\ \E raises \in BOOLEAN :
          LET chunk == Len(enc.produced) + 1 IN
          enc' = [enc EXCEPT
                    !.produced = Append(@, chunk),
                    !.written = IF chunk % 2 = 0
                                  THEN @ \o <<chunk, chunk - 1>> ELSE @,
                    !.wstatus = EncoderWriteStatus(raises),
                    !.raisedIn = IF raises THEN enc.pc ELSE @]
    /\ UNCHANGED <<cls, rc, fdec>>
    /\ UNCHANGED streamVars

\* encoder _write_callback (encoder.py:425-446): the engine hands over its
\* next chunk; the callback passes it to encoder.write_callback and returns.
\* Chunks are numbered 1, 2, ... in the order the engine produces them.
EncoderWriteCallback ==
    /\ cls = "StreamEncoder"
    /\ EngineWrites(enc, cls)
    /\ enc.wstatus # ENC_WRITE_STATUS_FATAL_ERROR
    /\ Len(enc.produced) < MaxFrames
    /\ \E raises \in BOOLEAN :
          LET chunk == Len(enc.produced) + 1 IN
          enc' = [enc EXCEPT
                    !.produced = Append(@, chunk),
                    !.written = Append(@, chunk),
                    !.wstatus = EncoderWriteStatus(raises),
                    !.raisedIn = IF raises THEN enc.pc ELSE @]
    /\ UNCHANGED <<cls, rc, fdec>>
    /\ UNCHANGED streamVars

\* encoder.py:449-479: _seek_callback and _tell_callback call the caller's
\* callback and return OK, or def_extern's error status when the call
\* raises, as it does when the callback is None; _metadata_callback calls
\* the caller's callback and returns nothing.
TrampolineStatus(cb, supplied, raises) ==
    IF cb = "metadata" THEN "none"
    ELSE IF ~supplied \/ raises THEN "error" ELSE "ok"

\* The engine, inside a call, invokes one of the trampolines it was given at
\* init_stream; it has no pointer to the others.  A seek or tell callback
\* that answers its error status leaves the engine in CLIENT_ERROR.
EncoderTrampoline ==
    /\ cls = "StreamEncoder"
    /\ EngineWrites(enc, cls)
    /\ enc.wstatus # ENC_WRITE_STATUS_FATAL_ERROR
    /\ enc.tstatus # "error"
    /\ \E cb \in enc.registered, raises \in BOOLEAN :
          LET answer == TrampolineStatus(cb, Supplied(enc, cb), raises) IN
          enc' = [enc EXCEPT
                    !.invoked = cb,
                    !.tstatus = answer,
                    !.state = IF answer = "error" /\ enc.pc # "in_init"
                                THEN ENC_CLIENT_ERROR ELSE @]
    /\ UNCHANGED <<cls, rc, fdec>>
    /\ UNCHANGED streamVars

\* Mutant of InitOutcome: the flag is set before the status is tested.
InitOutcome_FlagFirst(e, r) ==
    IF r # ENC_INIT_STATUS_OK
        THEN [e EXCEPT !.pc = "idle", !.outcome = "EncoderInitException",
                       !.code = r, !.initialised = TRUE,
                       !.state = IF r = ENC_INIT_STATUS_ENCODER_ERROR
                                   THEN ENC_CLIENT_ERROR ELSE @,
                       !.wstatus = NoStatus]
        ELSE [e EXCEPT !.initialised = TRUE, !.state = ENC_OK,
                       !.calls = Append(@, Call("process_interleaved", 0)),
                       !.pc = "in_process"]

\* _init, encoder.py:327-330 and 404-407, after the init call answered r:
\* `if rc != OK: raise EncoderInitException(rc)`, else `_initialised =
\* True`; process() then goes on to process_interleaved (lines 112-115).
\* An init call that failed while writing leaves the engine in an error
\* state.
InitOutcome(e, r) ==
    IF r # ENC_INIT_STATUS_OK
        THEN [e EXCEPT !.pc = "idle", !.outcome = "EncoderInitException",
                       !.code = r,
                       !.state = IF r = ENC_INIT_STATUS_ENCODER_ERROR
                                   THEN ENC_CLIENT_ERROR ELSE @,
                       !.wstatus = NoStatus]
        ELSE [e EXCEPT !.initialised = TRUE, !.state = ENC_OK,
                       !.calls = Append(@, Call("process_interleaved", 0)),
                       !.pc = "in_process"]

\* The init call of _init() returns (encoder.py:319-330, 397-407).
EncoderInitReturn ==
    /\ cls \in EncoderClasses
    /\ enc.pc = "in_init"
    /\ \E r \in EngineInitStatuses(enc, cls) :
          /\ rc' = r
          /\ enc' = InitOutcome(enc, r)
    /\ UNCHANGED <<cls, fdec>>
    /\ UNCHANGED streamVars

\* process_interleaved returns (encoder.py:115-119): `if not result: raise
\* EncoderProcessException(str(self.state))`.  FileEncoder.process() goes on
\* to self.finish() (encoder.py:420).
EncoderProcessReturn ==
    /\ cls \in EncoderClasses
    /\ enc.pc = "in_process"
    /\ \E answer \in EngineProcessResults(enc) :
          enc' = IF ~answer.result
                   THEN [enc EXCEPT !.pc = "idle", !.state = answer.state,
                                    !.outcome = "EncoderProcessException",
                                    !.wstatus = NoStatus]
                 ELSE IF cls = "FileEncoder"
                   THEN [enc EXCEPT !.pc = "in_finish", !.state = answer.state,
                                    !.calls = Append(@, Call("finish", 0))]
                 ELSE [enc EXCEPT !.pc = "idle", !.state = answer.state,
                                  !.outcome = "ok"]
    /\ UNCHANGED <<cls, rc, fdec>>
    /\ UNCHANGED streamVars

\* The caller calls finish() (encoder.py:121-132), which enters
\* FLAC__stream_encoder_finish.
EncoderFinishCall ==
    /\ cls \in EncoderClasses
    /\ enc.pc = "idle"
    /\ enc.finishCalls < MaxFinish
    /\ enc' = [Entered(enc, "finish", NoSamples) EXCEPT
                  !.pc = "in_finish",
                  !.calls = <<Call("finish", 0)>>,
                  !.finishCalls = enc.finishCalls + 1]
    /\ UNCHANGED <<cls, rc, fdec>>
    /\ UNCHANGED streamVars

\* FLAC__stream_encoder_finish returns: the engine is back to UNINITIALIZED
\* with its settings at their defaults; _initialised is not touched.
\* finish() returns the engine's boolean (encoder.py:132);
\* FileEncoder.process() drops it and returns the bytes of the output file
\* (encoder.py:420-422).
EncoderFinishReturn ==
    /\ cls \in EncoderClasses
    /\ enc.pc = "in_finish"
    /\ enc' = [enc EXCEPT
                  !.pc = "idle",
                  !.state = ENC_UNINITIALIZED,
                  !.channels = Default,
                  !.bits_per_sample = Default,
                  !.wstatus = NoStatus,
                  !.outcome = IF enc.lastCall = "process" THEN "bytes"
                              ELSE IF EngineFinishResult(enc) THEN "True"
                              ELSE "False"]
    /\ UNCHANGED <<cls, rc, fdec>>
    /\ UNCHANGED streamVars

\* ------------------------------------------------------------ the system
CallerStep ==
    \/ StreamDecoderInit
    \/ Process
    \/ FinishCall

FinishStep ==
    \/ FinishDrainTest
    \/ FinishSleep
    \/ FinishSetDone
    \/ FinishEngineReturn
    \/ FinishJoin
    \/ FinishCheck

EngineStep ==
    \/ EngineRead
    \/ WriteCallback
    \/ ErrorCallback
    \/ EngineReturnTrue
    \/ EngineReturnFalse
    \/ ProcessRecordFailure

ReadCallbackStep ==
    \/ RcCheckError
    \/ RcCheckDone
    \/ RcWaitTest
    \/ RcSleep
    \/ RcFitTest
    \/ RcPopleft
    \/ RcMoreTest
    \/ RcSlice
    \/ RcStore
    \/ RcReturn

WorkerStep == EngineStep \/ ReadCallbackStep

FileDecoderStep ==
    \/ FileDecoderInit
    \/ FileProcessCall
    \/ FileWriteCallback
    \/ FileProcessReturn

EncoderStep ==
    \/ EncoderConstruct
    \/ EncoderProcessCall
    \/ EncoderWriteCallback
    \/ EncoderTrampoline
    \/ EncoderInitReturn
    \/ EncoderProcessReturn
    \/ EncoderFinishCall
    \/ EncoderFinishReturn

Next == CallerStep \/ FinishStep \/ WorkerStep \/ FileDecoderStep \/ EncoderStep

Spec == Init /\ [][Next]_vars

\* The interpreter schedules every runnable thread: the worker thread keeps
\* taking steps, and a finish() call in progress keeps taking steps.  The
\* caller is free never to call process() or finish() again.
FairSpec == Spec /\ WF_vars(WorkerStep) /\ WF_vars(FinishStep)

\* A read callback entered with a request of at least one byte.
EngineReadSome == EngineRead /\ num_bytes' > 0

\* FairSpec, and an engine that does not ask for zero bytes for ever: libFLAC
\* asks for the free space of its input buffer, so among the requests of a
\* loop that keeps reading there are always requests of one byte or more.
LiveSpec == FairSpec /\ SF_vars(EngineReadSome)

\* ------------------------------------------------------------- scenarios
\* A StreamDecoder fed with given chunks and an engine whose reads all ask
\* for the same number of bytes.  Everything else is as in Spec: the caller
\* may call finish() at any time, and the engine may report an error, hand
\* a frame to _write_callback, or return.
ScenarioInit == Init /\ cls = "StreamDecoder"

\* The caller submits chunks of the given sizes, in order.
ScenarioSubmit(sizes) ==
    /\ Len(submitted) < Len(sizes)
    /\ Submit(sizes[Len(submitted) + 1])

\* What the worker thread does apart from issuing reads.
ScenarioWorkerStep ==
    \/ WriteCallback
    \/ ErrorCallback
    \/ EngineReturnTrue
    \/ EngineReturnFalse
    \/ ProcessRecordFailure
    \/ ReadCallbackStep

\* Scenario A: one chunk of 1000 bytes; every read asks for 300 bytes.
ScenarioASubmit == ScenarioSubmit(<<1000>>)

ScenarioARead == Pull(300)

ScenarioANext ==
    \/ StreamDecoderInit
    \/ ScenarioASubmit
    \/ FinishCall
    \/ FinishStep
    \/ ScenarioARead
    \/ ScenarioWorkerStep

ScenarioA == ScenarioInit /\ [][ScenarioANext]_vars

\* Scenario A with the scheduling of FairSpec: the worker thread and a
\* finish() call in progress keep taking steps.
ScenarioAFair ==
    /\ ScenarioA
    /\ WF_vars(ScenarioARead \/ ScenarioWorkerStep)
    /\ WF_vars(FinishStep)

\* Scenario B: chunks of 50 and 4000 bytes, both submitted before the first
\* read, and a terminating empty chunk; every read asks for 1024 bytes.
ScenarioBSubmit == ScenarioSubmit(<<50, 4000, 0>>)

ScenarioBRead == Len(submitted) >= 2 /\ Pull(1024)

ScenarioBNext ==
    \/ StreamDecoderInit
    \/ ScenarioBSubmit
    \/ FinishCall
    \/ FinishStep
    \/ ScenarioBRead
    \/ ScenarioWorkerStep

ScenarioB == ScenarioInit /\ [][ScenarioBNext]_vars

\* ================================================================ claims
\* Bytes the pull in progress has removed from the deque and not yet handed
\* to the engine.
InHand == IF wpc \in {"rc_more", "rc_slice", "rc_store", "rc_ret"} THEN data ELSE <<>>

\* Bytes still owed by the deque.  Between lines 349 and 350 the prefix just
\* copied into data is still at the front of the head chunk.
Pending ==
    IF wpc = "rc_store"
        THEN SubSeq(Flatten(buffer), maximum_bytes + 1, Len(Flatten(buffer)))
        ELSE Flatten(buffer)

\* C1: order preservation.  The bytes _read_callback has handed to the engine
\* are at every moment a prefix of the concatenation of the chunks passed to
\* process(), in submission order; once the deque is drained and no pull holds
\* bytes it has not returned yet, they equal that concatenation.
C1_OrderPreservation ==
    /\ IsPrefix(delivered, Flatten(submitted))
    /\ (buffer = <<>> /\ InHand = <<>>) => delivered = Flatten(submitted)

\* C1 witness: every chunk was submitted at full length, so the last pull,
\* which asked for one byte and got one, served a piece of a split chunk, and
\* every submitted byte has been delivered.
C1_Witness ==
    /\ Len(submitted) = MaxChunks
    /\ Len(Flatten(submitted)) = MaxChunks * MaxChunkLen
    /\ delivered = Flatten(submitted)
    /\ wpc = "engine" /\ status = CONTINUE
    /\ requested = 1 /\ num_bytes = 1

\* C2: under every interleaving of process() with the steps of
\* _read_callback no byte is lost, duplicated or reordered: the bytes
\* delivered, then the bytes the pull in progress holds, then the bytes left
\* in the deque are exactly the submitted bytes, in submission order.
C2_NoLossNoDupInterleaved ==
    delivered \o InHand \o Pending = Flatten(submitted)

\* C2 witness: the last process() call appended its chunk while a pull was
\* past its emptiness test, and every submitted byte has since been delivered.
C2_Witness ==
    /\ raced
    /\ Len(Flatten(submitted)) >= 2
    /\ buffer = <<>>
    /\ wpc = "engine"
    /\ delivered = Flatten(submitted)

\* C3: no over-delivery.  Whenever _read_callback has returned, the byte
\* count it left in num_bytes[0] is at most the count the engine asked for.
C3_NoOverDelivery ==
    wpc \in {"engine", "failed", "dead"} => num_bytes <= requested

\* C3 witness: a pull returned a whole popped chunk followed by a prefix of
\* the next chunk, filling the request exactly.
C3_Witness ==
    /\ wpc = "engine" /\ status = CONTINUE
    /\ num_bytes = requested
    /\ Len(data) = requested
    /\ 0 < maximum_bytes /\ maximum_bytes < requested

\* C4: if finish() is called while the worker waits inside _read_callback on
\* an empty deque, the worker eventually leaves the wait, the loop ends and
\* the worker thread terminates.
C4_FinishUnblocksWorker ==
    (cpc # "idle" /\ wpc \in {"rc_wait", "rc_sleep"} /\ buffer = <<>>) ~> (wpc = "dead")

C7_FinishIdempotent ==
    [][(cpc = "f_check" /\ cpc' = "idle" /\ finishCalls >= 2 /\ outcome = "raised")
          => outcome' = "ok"]_vars

\* C8: once the done flag or the error field is set, no further bytes are
\* taken from the deque.
C8_TerminalNoFurtherBytes ==
    [][(done \/ Truthy(error)) => Len(Flatten(buffer')) >= Len(Flatten(buffer))]_vars

\* C9: once the error field is set, a pull returns ABORT at its first test:
\* the worker is never inside the body of _read_callback (no wait, no access
\* to the deque), and the step the worker takes from the error test returns
\* ABORT to the engine with the deque and the byte count untouched.
C9_ErroredPullAborts ==
    /\ [](Truthy(error) => wpc \in {"engine", "rc_error", "failed", "dead"})
    /\ [][(Truthy(error) /\ wpc = "rc_error" /\ wpc' # wpc)
            => /\ wpc' = "engine"
               /\ status' = ABORT
               /\ buffer' = buffer
               /\ delivered' = delivered
               /\ ~waited']_vars

\* C9 witness: a pull returned ABORT while chunks were waiting in the deque.
C9_Witness ==
    /\ wpc = "engine" /\ status = ABORT
    /\ Truthy(error)
    /\ Len(Flatten(buffer)) > 0
    /\ ~waited

\* C10: there is no state in which the caller thread is inside
\* FLAC__stream_decoder_finish while the worker thread is still inside
\* FLAC__stream_decoder_process_until_end_of_stream on the same handle.
C10_EngineHandleDiscipline ==
    ~(cpc = "f_inflac" /\ wpc \notin {"failed", "dead"})

\* C11: a finish() call whose join (line 229) timed out, the worker thread
\* being still alive when finish() performs its last statement, raises
\* DecoderProcessException instead of returning normally.
C11_JoinTimeoutRaises ==
    [][(cpc = "f_check" /\ cpc' = "idle" /\ IsAlive) => outcome' = "raised"]_vars

\* C12: finish() never blocks indefinitely.  Whatever the state finish() is
\* called in, the call eventually returns or raises.
C12_FinishTerminates ==
    (cpc \in {"f_drain", "f_sleep", "f_done", "f_inflac", "f_join", "f_check"})
        ~> (cpc = "idle")

\* C12 witness: a finish() call has returned normally; the worker has
\* delivered every submitted byte, was answered END_OF_STREAM and terminated.
C12_Witness ==
    /\ cpc = "idle" /\ lastCall = "finish" /\ outcome = "ok"
    /\ wpc = "dead" /\ status = END_OF_STREAM
    /\ Len(delivered) > 0
    /\ delivered = Flatten(submitted)

\* C13: decoder initialisation fails atomically.  When the engine's init call
\* answers a status other than OK, the constructor of StreamDecoder or
\* FileDecoder ends in DecoderInitException, the object never becomes usable
\* and its engine handle stays uninitialised, and for a StreamDecoder no
\* worker thread exists.
C13_InitFailsAtomically ==
    (rc \notin {Unset, INIT_STATUS_OK}) =>
        /\ cls = "StreamDecoder" =>
              /\ cpc = "init_raised" /\ outcome = "DecoderInitException"
              /\ flac = "uninitialized"
              /\ wpc = "unstarted"
        /\ cls = "FileDecoder" =>
              /\ fdec.pc = "init_raised"
              /\ fdec.state = STATE_UNINITIALIZED

\* C13 witness: the StreamDecoder constructor raised after init_stream
\* answered a memory allocation error.
C13_Witness ==
    /\ cls = "StreamDecoder"
    /\ rc = INIT_STATUS_MEMORY_ALLOCATION_ERROR
    /\ cpc = "init_raised"

\* C14: encoder initialisation.  Whenever the init call of _init() answers a
\* status other than OK, _init() raises EncoderInitException carrying that
\* status and the initialised flag stays false; the flag becomes true only
\* when the status is OK.  An encoder constructed with an invalid sample
\* rate or block size, outside the streamable subset, or with a seek
\* callback and no tell callback is never initialised.
C14_EncoderInitStatus ==
    /\ [][(enc.pc = "in_init" /\ enc'.pc # "in_init") =>
            IF rc' # ENC_INIT_STATUS_OK
                THEN /\ enc'.outcome = "EncoderInitException"
                     /\ enc'.code = rc'
                     /\ ~enc'.initialised
                     /\ enc'.pc = "idle"
                ELSE /\ enc'.initialised
                     /\ enc'.outcome # "EncoderInitException"]_vars
    /\ [][(~enc.initialised /\ enc'.initialised) => rc' = ENC_INIT_STATUS_OK]_vars
    /\ [](enc.initialised =>
            /\ enc.config = "valid"
            /\ ~(cls = "StreamEncoder" /\ enc.seek /\ ~enc.tell))

\* C14 witness: a StreamEncoder given a seek callback and no tell callback
\* raised EncoderInitException(INVALID_CALLBACKS) and is not initialised.
C14_Witness ==
    /\ cls = "StreamEncoder"
    /\ enc.pc = "idle" /\ enc.lastCall = "process"
    /\ enc.outcome = "EncoderInitException"
    /\ enc.code = ENC_INIT_STATUS_INVALID_CALLBACKS
    /\ ~enc.initialised

\* C15: lazy encoder initialisation.  Constructing an encoder performs no
\* handshake: until the first process() call the engine state is
\* UNINITIALIZED and no call but finish reaches the engine.  A process()
\* call that is given an array and finds the encoder uninitialised sets the
\* channel count and the bits per sample from that array and then enters
\* _init(); samples are handed to the engine only on an initialised encoder,
\* within that call only right after an init call that answered OK.
C15_LazyInit ==
    /\ []((cls \in EncoderClasses /\ enc.processCalls = 0) =>
            /\ enc.state = ENC_UNINITIALIZED
            /\ ~enc.initialised
            /\ \A i \in DOMAIN enc.calls : enc.calls[i].call = "finish")
    /\ [][(/\ enc.pc = "idle"
           /\ enc'.processCalls = enc.processCalls + 1
           /\ IsArray(enc'.arg)
           /\ ~enc.initialised /\ enc.state = ENC_UNINITIALIZED) =>
            /\ enc'.pc = "in_init"
            /\ enc'.channels = ChannelsOf(enc'.arg)
            /\ enc'.bits_per_sample = BitsOf(enc'.arg)
            /\ enc'.calls = <<Call("set_channels", ChannelsOf(enc'.arg)),
                              Call("set_bits_per_sample", BitsOf(enc'.arg)),
                              Call(InitCall(cls), 0)>>]_vars
    /\ [](\A i \in DOMAIN enc.calls :
            enc.calls[i].call = "process_interleaved" =>
                /\ enc.initialised
                /\ i > 1 => /\ enc.calls[i - 1].call = InitCall(cls)
                            /\ rc = ENC_INIT_STATUS_OK)

\* C15 witness: the first process() call of a StreamEncoder, given a 2-D
\* int32 array with two columns, has set 2 channels and 32 bits, was
\* answered OK by init_stream and is inside process_interleaved.
C15_Witness ==
    /\ cls = "StreamEncoder"
    /\ enc.processCalls = 1
    /\ enc.pc = "in_process"
    /\ enc.channels = 2 /\ enc.bits_per_sample = 32
    /\ enc.calls = <<Call("set_channels", 2), Call("set_bits_per_sample", 32),
                     Call("init_stream", 0), Call("process_interleaved", 0)>>

\* C16 (as claimed): every chunk the engine hands to the encoder's or to the
\* decoder's _write_callback is passed to the consumer exactly once, in the
\* order the engine produced the chunks: the consumer's calls are the
\* engine's chunks.
C16_EveryChunkForwardedOnce ==
    /\ enc.written = enc.produced
    /\ fdec.consumed = fdec.produced

\* C16 (amended): the encoder's _write_callback passes every chunk to the
\* consumer exactly once, in production order; the decoder's _write_callback
\* does so for every frame of 16 bits per sample, and passes no frame of
\* another bit depth to the consumer.
C16_ForwardedOnceInOrder ==
    /\ enc.written = enc.produced
    /\ fdec.consumed = SelectSeq(fdec.produced, Forwards)

\* C16 witness: the decoder's engine produced a 16-bit frame, which reached
\* the consumer, and then a 24-bit frame, which did not.
C16_Witness ==
    /\ Len(fdec.produced) = 2
    /\ Forwards(fdec.produced[1])
    /\ ~Forwards(fdec.produced[2])
    /\ fdec.consumed = <<fdec.produced[1]>>

C19_TypeErrorFirst ==
    [][(/\ enc.pc = "idle"
        /\ enc'.processCalls = enc.processCalls + 1
        /\ ~IsArray(enc'.arg)) =>
          /\ enc'.outcome = "TypeError"
          /\ enc'.pc = "idle"
          /\ enc'.initialised = enc.initialised
          /\ enc'.channels = enc.channels
          /\ enc'.bits_per_sample = enc.bits_per_sample
          /\ enc'.state = enc.state
          /\ enc'.calls = <<>>
          /\ enc'.produced = enc.produced
          /\ enc'.written = enc.written
          /\ rc' = rc]_vars

\* C19 witness: the first process() call of an encoder was given a list and
\* raised TypeError; the encoder is uninitialised, its settings untouched.
C19_Witness ==
    /\ cls \in EncoderClasses
    /\ enc.pc = "idle" /\ enc.lastCall = "process"
    /\ ~IsArray(enc.arg)
    /\ enc.outcome = "TypeError"
    /\ ~enc.initialised
    /\ enc.channels = Default /\ enc.bits_per_sample = Default
    /\ enc.state = ENC_UNINITIALIZED

\* C17: when the consumer raises inside a write callback the callback answers
\* the engine with its failure status (FATAL_ERROR from the encoder's, ABORT
\* from the decoder's, which ends the worker's loop), and the call that
\* reports it raises: a process() or finish() of the encoder during which the
\* consumer raised ends as a process() call raising EncoderProcessException,
\* and a finish() of the StreamDecoder that returns after the consumer raised
\* raises DecoderProcessException.
C17_ConsumerFailureReachesCaller ==
    /\ [](enc.raisedIn # "none" /\ enc.pc # "idle"
            => enc.wstatus = ENC_WRITE_STATUS_FATAL_ERROR)
    /\ [](enc.raisedIn # "none" /\ enc.pc = "idle"
            => enc.lastCall = "process" /\ enc.outcome = "EncoderProcessException")
    /\ [](writeAbort = "consumer" => wpc \in {"failed", "dead"})
    /\ [][(cpc = "f_check" /\ cpc' = "idle" /\ writeAbort = "consumer")
            => outcome' = "raised"]_vars

\* C20: when the chunk at the head of the deque is longer than the engine's
\* request, the pull hands over exactly the first `requested` bytes of it:
\* they are the bytes that follow, in submission order, the bytes delivered
\* so far.  The rest of the chunk stays at the head of the deque, in front of
\* every later chunk, so that the deque holds exactly the submitted bytes not
\* yet handed over, in order: nothing is lost and no later byte overtakes.
\* The step that stores the remainder changes the head chunk only.
C20_OversizedHeadSplit ==
    /\ []((wpc = "rc_ret" /\ maximum_bytes = requested /\ Len(data) > 0) =>
            /\ Len(data) = requested
            /\ data = SubSeq(Flatten(submitted), Len(delivered) + 1,
                             Len(delivered) + requested)
            /\ buffer # <<>>
            /\ buffer[1] # <<>>
            /\ Flatten(buffer) = SubSeq(Flatten(submitted),
                                        Len(delivered) + requested + 1,
                                        Len(Flatten(submitted))))
    /\ [][(wpc = "rc_store" /\ wpc' = "rc_ret" /\ maximum_bytes = requested) =>
            /\ Len(buffer') >= 1
            /\ data \o buffer'[1] = buffer[1]
            /\ Tail(buffer') = Tail(buffer)]_vars

\* C20 witness: a pull is about to return the first bytes of an oversized head
\* chunk, with the remainder at the head of the deque and a later chunk
\* behind it.
C20_Witness ==
    /\ wpc = "rc_ret"
    /\ maximum_bytes = requested
    /\ Len(data) > 0
    /\ Len(buffer) >= 2
    /\ buffer[1] # <<>>

\* C21 (as claimed): a pull returns exactly the requested number of bytes,
\* and when it returns fewer with the continue status the deque holds no
\* further bytes at the moment it returns.
C21_ShortOnlyWhenDrained ==
    [][(wpc = "rc_ret" /\ wpc' = "engine" /\ status' = CONTINUE
            /\ num_bytes' < requested)
        => Flatten(buffer') = <<>>]_vars

\* C21 (amended): a pull returns at most the requested number of bytes.  It
\* pops at most one whole chunk and only ever slices the chunk behind it:
\* when the pull decides to return fewer bytes than requested, the deque is
\* empty or its head chunk is no longer than the rest of the request, and
\* the bytes returned end at the end of a submitted chunk.
C21_ShortOnlyAtChunkEnd ==
    /\ [](wpc = "rc_ret" => Len(data) <= requested)
    /\ [][(wpc = "rc_more" /\ wpc' = "rc_ret" /\ Len(data) < requested)
            => (buffer = <<>> \/ Len(buffer[1]) <= requested - Len(data))]_vars
    /\ []((wpc = "rc_ret" /\ Len(data) < requested)
            => ChunkEnd(Len(delivered) + Len(data)))

\* C21 witness: a pull is about to return fewer bytes than requested while
\* the deque holds a chunk that would have fitted into the rest of the
\* request.
C21_Witness ==
    /\ wpc = "rc_ret"
    /\ 0 < Len(data) /\ Len(data) < requested
    /\ buffer # <<>>
    /\ buffer[1] # <<>>
    /\ Len(buffer[1]) <= requested - Len(data)

ScenarioBClaimed(d) ==
    IF d < 3072 THEN 1024 ELSE IF d = 3072 THEN 878 ELSE 0

\* The same, as 4050 - 3 * 1024 makes it.
ScenarioBExpected(d) ==
    IF d < 3072 THEN 1024 ELSE IF d = 3072 THEN 978 ELSE 0

InPull == wpc \in {"rc_error", "rc_done", "rc_wait", "rc_sleep"} \cup RcBody

\* The byte count the pull of scenario A returns that starts with d bytes
\* delivered.
ScenarioAExpected(d) == IF d < 900 THEN 300 ELSE IF d = 900 THEN 100 ELSE 0

\* C24: in scenario A the first four pulls return 300, 300, 300 and 100
\* bytes, and the fifth pull, the one in progress with all 1000 bytes
\* delivered, answers end-of-stream once finish() has set the done flag
\* and no error is recorded: it neither stays blocked nor aborts.
C24_ScenarioA ==
    /\ [][(wpc = "rc_ret" /\ wpc' = "engine")
            => num_bytes' = ScenarioAExpected(Len(delivered))]_vars
    /\ ((InPull /\ Len(delivered) = 1000 /\ done /\ error = None)
            ~> (status = END_OF_STREAM))

\* C25: finish() drains before it signals the end.  When the done flag is
\* set with no error recorded, the deque is empty and every byte submitted
\* so far has been taken by the read callback (handed to the engine, or in
\* the hands of the pull in progress); a pull answers end-of-stream only
\* with the flag set, hence after that.  With an error recorded the drain
\* loop is left at once, and neither leaving it nor setting the flag
\* touches the deque: the remaining chunks stay undelivered.
C25_DrainBeforeDone ==
    /\ [][(~done /\ done' /\ error = None)
            => /\ buffer = <<>>
               /\ delivered \o InHand = Flatten(submitted)]_vars
    /\ [][(status' = END_OF_STREAM /\ status # END_OF_STREAM)
            => (done /\ error = None)]_vars
    /\ [][(cpc = "f_drain" /\ cpc' # cpc /\ error # None)
            => (cpc' = "f_done" /\ buffer' = buffer)]_vars
    /\ [][(cpc = "f_done" /\ cpc' # cpc) => (done' /\ buffer' = buffer)]_vars

\* C25 witness: the first finish() has just set the done flag with no error
\* recorded; two chunks were submitted before it and all their bytes were
\* handed to the engine, and no pull has answered end-of-stream yet.
C25_Witness ==
    /\ cpc = "f_inflac" /\ finishCalls = 1
    /\ done /\ error = None
    /\ Len(submitted) = 2
    /\ delivered # <<>>
    /\ delivered = Flatten(submitted)
    /\ buffer = <<>>
    /\ status = CONTINUE

\* Every chunk submitted so far is non-empty.
NonEmptyChunks == \A i \in 1..Len(submitted) : submitted[i] # <<>>

\* C26: pull progress.  While every submitted chunk is non-empty, every
\* chunk in the deque is non-empty, and a pull that was asked for one byte
\* or more and returns from the deque returns the continue status with at
\* least one byte.  The bytes delivered are always a prefix of the bytes
\* submitted, so a deque holding n bytes is empty after at most n such
\* pulls.
C26_PullProgress ==
    /\ [](NonEmptyChunks => \A i \in 1..Len(buffer) : buffer[i] # <<>>)
    /\ [][(wpc = "rc_ret" /\ wpc' = "engine" /\ requested >= 1 /\ NonEmptyChunks)
            => /\ status' = CONTINUE
               /\ num_bytes' >= 1
               /\ Len(delivered') >= Len(delivered) + 1]_vars
    /\ [](Len(delivered) + Len(InHand) + Len(Pending) = Len(Flatten(submitted)))

\* C26 witness: two non-empty chunks were submitted, and the pull that
\* has just returned, asked for one byte or more, delivered the last of
\* their bytes: the deque is drained.
C26_Witness ==
    /\ NonEmptyChunks
    /\ Len(submitted) = 2
    /\ wpc = "engine" /\ status = CONTINUE
    /\ requested >= 1 /\ num_bytes >= 1
    /\ buffer = <<>>
    /\ delivered = Flatten(submitted)

\* C27: a decoded frame that is not 16 bits per sample makes
\* _write_callback fail before the consumer is reached.  The consumer is not
\* invoked for that frame and the abort status is returned (seen on the
\* FileDecoder, whose consumer calls are recorded); in a StreamDecoder the
\* loop then fails, _process records the fatal error before the thread
\* ends, and a finish() that returns after that raises
\* DecoderProcessException.
C27_BadFrameAborts ==
    /\ [][(/\ Len(fdec'.produced) = Len(fdec.produced) + 1
            /\ ~Forwards(fdec'.produced[Len(fdec'.produced)]))
            => /\ fdec'.consumed = fdec.consumed
               /\ fdec'.output = fdec.output
               /\ fdec'.wstatus = WRITE_STATUS_ABORT]_vars
    /\ [][(writeAbort # "frame" /\ writeAbort' = "frame")
            => (wpc = "engine" /\ wpc' = "failed")]_vars
    /\ [](writeAbort = "frame" => wpc \in {"failed", "dead"})
    /\ []((writeAbort = "frame" /\ wpc = "dead") => error = FatalMessage)
    /\ [][(cpc = "f_check" /\ cpc' = "idle" /\ writeAbort = "frame" /\ wpc = "dead")
            => outcome' = "raised"]_vars

\* C27 witness: a frame that is not 16 bits per sample ended the worker's
\* loop, the error was recorded, and the finish() called after that has
\* raised.
C27_Witness ==
    /\ writeAbort = "frame"
    /\ wpc = "dead"
    /\ error = FatalMessage
    /\ cpc = "idle" /\ lastCall = "finish" /\ finishCalls = 1
    /\ errAtCall
    /\ outcome = "raised"

\* The names of the engine calls a process() or finish() call has made.
CallNames(e) == {e.calls[i].call : i \in 1..Len(e.calls)}

\* C28: the handshake is performed at most once after it has succeeded.
\* The initialised flag is never reset.  A process() call on an encoder
\* whose flag is set leaves the channel count and the bit depth alone and
\* makes no setter call and no init call, also after finish() has returned
\* the engine to UNINITIALIZED; process_interleaved on that engine fails and
\* the call raises EncoderProcessException.
C28_HandshakeOnce ==
    /\ [][enc.initialised => enc'.initialised]_vars
    /\ [](enc.initialised => enc.pc # "in_init")
    /\ [][(enc.initialised /\ enc'.processCalls = enc.processCalls + 1)
            => /\ enc'.channels = enc.channels
               /\ enc'.bits_per_sample = enc.bits_per_sample
               /\ CallNames(enc') \subseteq {"process_interleaved"}]_vars
    /\ [][(enc.pc = "in_process" /\ enc'.pc # "in_process"
            /\ enc.state = ENC_UNINITIALIZED)
            => (enc'.pc = "idle" /\ enc'.outcome = "EncoderProcessException")]_vars

\* C28 witness: a StreamEncoder that was initialised by its first
\* process() and finished was given an array again: the call made
\* process_interleaved only and raised EncoderProcessException.
C28_Witness ==
    /\ cls = "StreamEncoder"
    /\ enc.initialised
    /\ enc.finishCalls >= 1 /\ enc.processCalls >= 2
    /\ enc.pc = "idle" /\ enc.lastCall = "process"
    /\ IsArray(enc.arg)
    /\ enc.calls = <<Call("process_interleaved", 0)>>
    /\ enc.state = ENC_UNINITIALIZED
    /\ enc.outcome = "EncoderProcessException"

\* C29: the terminal flags of a StreamDecoder are monotonic.  No step of
\* process(), of finish(), of a pull or of an engine callback makes a true
\* done flag false or turns a recorded error back into None; both start
\* out unset.
C29_TerminalFlagsMonotonic ==
    /\ [][done => done']_vars
    /\ [][error # None => error' # None]_vars
    /\ [](cpc = "new" => (~done /\ error = None))

\* C29 witness: after finish() has set the done flag and an error was
\* recorded, the caller has called process() again and the worker has
\* ended: both flags are still set.
C29_Witness ==
    /\ done
    /\ error # None
    /\ wpc = "dead"
    /\ cpc = "idle" /\ lastCall = "process"
    /\ errAtCall
    /\ buffer # <<>>

\* C30: StreamEncoder._init() hands the engine the seek, tell and metadata
\* trampolines of exactly the callbacks the caller supplied, and NULL for
\* the others; a FileEncoder hands over none.  Every trampoline the engine
\* invokes therefore belongs to a callback that is present.
C30_TrampolinesAsSupplied ==
    /\ [](enc.registered \in {{}, InitCallbacks(enc, cls)})
    /\ [](enc.pc = "in_init" => enc.registered = InitCallbacks(enc, cls))
    /\ [](cls = "StreamEncoder" =>
            \A cb \in Optional : cb \in InitCallbacks(enc, cls) <=> Supplied(enc, cb))
    /\ [](enc.invoked # "none" =>
            (enc.invoked \in enc.registered /\ Supplied(enc, enc.invoked)))

\* C30 witness: a StreamEncoder given a seek and a tell callback and no
\* metadata callback (tests/test_encoder.py:190-200) registered the two
\* trampolines, and the engine has invoked the seek trampoline.
C30_Witness ==
    /\ cls = "StreamEncoder"
    /\ enc.seek /\ enc.tell /\ ~enc.metadata
    /\ enc.registered = {"seek", "tell"}
    /\ enc.initialised
    /\ enc.invoked = "seek"
    /\ enc.tstatus = "ok"

====
